---- MODULE Spec2Model ----
(***************************************************************************)
(* Bulk-import task engine of pokeapi-fastapi.                             *)
(*                                                                         *)
(* One import task is followed from the start request to its end:          *)
(*   - load_pokemons_async (app/routers/admin.py) creates the row and      *)
(*     spawns the worker coroutine process_pokemon_load;                   *)
(*   - the worker runs on the event loop; it is suspended only at an       *)
(*     await (page listing, detail fetch, record transformation, the       *)
(*     inter-batch sleep) and runs its synchronous code (the crud calls)   *)
(*     between two awaits;                                                 *)
(*   - cancel_task is a plain `def` endpoint, which FastAPI runs in a      *)
(*     worker thread: its statements interleave with the event loop's.     *)
(* Every crud call (SELECT, attribute assignments, commit) is one step.    *)
(* asyncio.CancelledError is a BaseException (Python >= 3.8): none of the  *)
(* `except Exception` handlers of the worker or the loader catches it.     *)
(***************************************************************************)
EXTENDS Integers, Sequences, FiniteSets, TLC

\* ----------------------------------------------------------------------
\* Bounds of the model
\* ----------------------------------------------------------------------
MaxLimit == 3
MaxOffset == 1
MaxBatchSize == 2
MaxCancels == 2
MaxOps == 2

\* ----------------------------------------------------------------------
\* Constants of the program
\* ----------------------------------------------------------------------
None == 0
NoError == "None"
TaskId == "t1"

\* the largest limit the middleware / the handler lets through
QueryLimitMax == 1000
HandlerLimitMax == 10000

Limits == 1..MaxLimit
\* the limit of a query string: accepted ones, zero, a negative, one too large
RequestLimits == ((-1)..MaxLimit) \cup {QueryLimitMax + 1}
\* the count the source reports when the request has no limit
SourceCounts == {0, MaxLimit, HandlerLimitMax + 1}
Offsets == 0..MaxOffset
\* batch_size is an unvalidated query parameter: zero and negatives get in
BatchSizes == (-1)..MaxBatchSize

VARIABLES
    async_tasks,    \* table async_tasks: task id -> row
    active_tasks,   \* registry: ids that have an entry in the dict
    params,         \* arguments process_pokemon_load was spawned with
    worker,         \* the coroutine process_pokemon_load: position and locals
    loader,         \* locals of load_pokemons for the batch in progress
    result,         \* value returned by the last load_pokemons call
    calls,          \* load_pokemons calls made so far: <<limit, offset>>
    canceller,      \* the thread running cancel_task, and requests so far
    now,            \* clock read by datetime.utcnow()
    pokemons,       \* table pokemons: rows in insertion order, id = position
    abilities,      \* table abilities: the names that have a row
    types,          \* table types: the names that have a row
    writers,        \* requests and import workers writing the catalog
    extraction,     \* one call of extract_evolutions: argument and return value
    gathering,      \* one call of fetch_pokemon_details: semaphore and fetches
    middleware      \* one request in input_validation_middleware

\* the import task and its registry
taskVars == <<async_tasks, active_tasks, params, worker, loader, result, calls,
              canceller, now>>
\* the catalog tables and their writers
storeVars == <<pokemons, abilities, types, writers>>
\* the calls of the service layer that are followed on their own
unitVars == <<extraction, gathering, middleware>>

vars == <<async_tasks, active_tasks, params, worker, loader, result, calls,
          canceller, now, pokemons, abilities, types, writers,
          extraction, gathering, middleware>>

\* ----------------------------------------------------------------------
\* Pure helpers
\* ----------------------------------------------------------------------
Min(a, b) == IF a <= b THEN a ELSE b

\* Python's a // b (floor division), b # 0
FloorDiv(a, b) == IF b > 0 THEN a \div b ELSE (0 - a) \div (0 - b)

\* the batch count without the last, partial batch
TotalBatchesFloor(limit, batch_size) == FloorDiv(limit, batch_size)

\* total_batches = (limit + batch_size - 1) // batch_size
TotalBatches(limit, batch_size) == FloorDiv(limit + batch_size - 1, batch_size)

\* batch_offset = offset + batch_num * batch_size
BatchOffset(offset, batch_num, batch_size) == offset + batch_num * batch_size

\* every batch asks for a full batch_size, the last one included
BatchLimitFull(limit, batch_num, batch_size) == batch_size

\* batch_limit = min(batch_size, limit - batch_num * batch_size)
BatchLimit(limit, batch_num, batch_size) ==
    Min(batch_size, limit - batch_num * batch_size)

\* the percentage taken of the batch size instead of the batch count
ProgressUnscaled(batch_num, total_batches) == 100 * (batch_num + 1)

\* progress = int(((batch_num + 1) / total_batches) * 100): the float
\* product truncated; equal to the integer quotient for total_batches < 10
Progress(batch_num, total_batches) ==
    FloorDiv(100 * (batch_num + 1), total_batches)

\* processed items counted in whole batches, the last one included
ProcessedUncapped(batch_num, batch_size, limit) == (batch_num + 1) * batch_size

\* processed = (batch_num + 1) * batch_size, persisted as min(processed, limit)
Processed(batch_num, batch_size, limit) ==
    Min((batch_num + 1) * batch_size, limit)

\* ----------------------------------------------------------------------
\* crud.py: the task row and its writers
\* ----------------------------------------------------------------------
NewTask(p) ==
    [status |-> "pending", params |-> p, result |-> <<>>, error |-> NoError,
     created_at |-> now, started_at |-> None, completed_at |-> None,
     progress |-> 0, total_items |-> 0, processed_items |-> 0]

update_task_progress(task, progress, processed, total) ==
    [task EXCEPT !.progress = progress,
                 !.processed_items = processed,
                 !.total_items = total,
                 !.status = IF task.status = "pending" THEN "running" ELSE @,
                 !.started_at = IF task.status = "pending" THEN now ELSE @]

complete_task(task, res) ==
    [task EXCEPT !.status = "completed",
                 !.result = <<res>>,
                 !.completed_at = now,
                 !.progress = 100]

\* a failure handler that also stores the partial counts as the result
fail_task_with_result(task, error) ==
    [task EXCEPT !.status = "failed",
                 !.error = error,
                 !.result = <<error>>,
                 !.completed_at = now]

fail_task(task, error) ==
    [task EXCEPT !.status = "failed",
                 !.error = error,
                 !.completed_at = now]

\* a cancel that marks the row without stamping completed_at
cancel_row_unstamped(task) ==
    [task EXCEPT !.status = "cancelled"]

\* the writes of cancel_task: task.status, task.completed_at, commit
cancel_row(task) ==
    [task EXCEPT !.status = "cancelled",
                 !.completed_at = now]

Terminal == {"completed", "failed", "cancelled"}

\* ----------------------------------------------------------------------
\* Initial state: no request has been made
\* ----------------------------------------------------------------------
\* `ledger` is a history of the dicts load_pokemons has returned to the
\* worker, kept only in the behaviours of SpecLedger
IdleWorker ==
    [pc |-> "none", batch_num |-> 0, total_batches |-> 0, total_loaded |-> 0,
     total_errors |-> 0, must_cancel |-> FALSE, outcome |-> "none",
     ledger |-> [kept |-> FALSE, results |-> << >>]]

IdleLoader ==
    [total_requested |-> 0, fetched |-> 0, i |-> 0, loaded |-> 0,
     updated |-> 0, skipped |-> 0, errors |-> 0,
     fetch_failed |-> 0, transform_failed |-> 0, save_failed |-> 0,
     listing |-> "none"]

NoResult ==
    [total_requested |-> 0, loaded |-> 0, updated |-> 0, skipped |-> 0,
     errors |-> 0]

\* the sessions that write the catalog
Writers == {"w1", "w2"}

\* the columns of a record nobody has sent yet
NoColumns ==
    [name |-> << >>, hp |-> 0, attack |-> 0, defense |-> 0, special_attack |-> 0,
     special_defense |-> 0, speed |-> 0, total_stats |-> 0]

\* a writer of the catalog before its first operation
IdleWriter ==
    [pc |-> "idle", op |-> "none", columns |-> NoColumns, abilities |-> << >>,
     types |-> << >>, force_update |-> FALSE, existing |-> None,
     outcome |-> "none", last |-> "none", ops |-> 0, raised |-> "none"]

\* no call of extract_evolutions in progress
IdleExtraction == [pc |-> "idle", evolution_data |-> << >>, evolutions |-> << >>]

\* no call of fetch_pokemon_details in progress
IdleGathering == [pc |-> "idle", semaphore |-> 0, tasks |-> << >>, valid_results |-> 0]

\* no request in input_validation_middleware
IdleMiddleware ==
    [pc |-> "idle", path |-> "none", method |-> "none", limit |-> None,
     called_from |-> "none", dispatched |-> 0, launched |-> 0, status_code |-> None]

Init ==
    /\ async_tasks = [id \in {} |-> None]
    /\ active_tasks = {}
    /\ params = [limit |-> 1, offset |-> 0, batch_size |-> 1, force_update |-> FALSE]
    /\ worker = IdleWorker
    /\ loader = IdleLoader
    /\ result = NoResult
    /\ calls = << >>
    /\ canceller = [pc |-> "idle", requests |-> 0, dispatched |-> 0, failed |-> 0,
                    status_code |-> None]
    /\ now = 1
    /\ pokemons = << >>
    /\ abilities = {}
    /\ types = {}
    /\ writers = [w \in Writers |-> IdleWriter]
    /\ extraction = IdleExtraction
    /\ gathering = IdleGathering
    /\ middleware = IdleMiddleware

\* ----------------------------------------------------------------------
\* load_pokemons_async: the start request
\* ----------------------------------------------------------------------
\* validate_query_params on the limit of the query string: digits only,
\* between 1 and 1000
validate_query_params(limit) == limit >= 1 /\ limit <= QueryLimitMax

\* load_pokemons_async up to crud.create_task(db, task_id, 'pokemon_load',
\* task_data).  A rejected request (400 of the middleware, 500 when the
\* count of the source is unusable, 400 of the handler) changes nothing.
StartCreate ==
    /\ worker.pc = "none"
    /\ \E given \in BOOLEAN, query \in RequestLimits, count \in SourceCounts,
          offset \in Offsets, batch_size \in BatchSizes, force_update \in BOOLEAN :
          LET limit == IF given THEN query ELSE count
              p == [limit |-> limit, offset |-> offset,
                    batch_size |-> batch_size, force_update |-> force_update]
          IN IF \/ given /\ ~validate_query_params(query)
                \/ ~given /\ count = 0
                \/ limit > HandlerLimitMax
             THEN UNCHANGED vars
             ELSE /\ params' = p
                  /\ async_tasks' = (TaskId :> NewTask(p))
                  /\ now' = now + 1
                  /\ worker' = [worker EXCEPT !.pc = "created"]
                  /\ UNCHANGED <<active_tasks, loader, result, calls, canceller>>
                  /\ UNCHANGED <<storeVars, unitVars>>

\* asyncio.create_task(process_pokemon_load(...)); active_tasks[task_id] = ...
StartSpawn ==
    /\ worker.pc = "created"
    /\ worker' = [worker EXCEPT !.pc = "start"]
    /\ active_tasks' = active_tasks \cup {TaskId}
    /\ UNCHANGED <<async_tasks, params, loader, result, calls, canceller, now>>
    /\ UNCHANGED <<storeVars, unitVars>>

\* ----------------------------------------------------------------------
\* process_pokemon_load: the worker coroutine
\* ----------------------------------------------------------------------
\* CancelledError caught by `except Exception as e` like an error of the job
RaisedAsFailure(w) == [w EXCEPT !.pc = "fail"]

\* CancelledError raised at the await the coroutine is suspended at: it
\* passes every `except Exception` and ends the asyncio task
Raised(w) == [w EXCEPT !.pc = "finished", !.outcome = "cancelled"]

\* loader.load_pokemons(limit=batch_limit, offset=batch_offset, ...) is
\* entered and runs to its first await, the page listing
EnterBatch(w, batch_num) ==
    /\ worker' = [w EXCEPT !.pc = "list", !.batch_num = batch_num]
    /\ loader' = IdleLoader
    /\ calls' = Append(calls,
            <<BatchLimit(params.limit, batch_num, params.batch_size),
              BatchOffset(params.offset, batch_num, params.batch_size)>>)

\* the event loop runs the first step of the task, unless it was cancelled
\* before it ever ran
WStart ==
    /\ worker.pc = "start"
    /\ worker' = IF worker.must_cancel THEN Raised(worker)
                 ELSE [worker EXCEPT !.pc = "upd0"]
    /\ UNCHANGED <<async_tasks, active_tasks, params, loader, result, calls,
                   canceller, now>>
    /\ UNCHANGED <<storeVars, unitVars>>

\* crud.update_task_progress(db, task_id, 0, 0, limit); total_batches = ...
WUpdate0 ==
    /\ worker.pc = "upd0"
    /\ async_tasks' = [async_tasks EXCEPT ![TaskId] =
            update_task_progress(@, 0, 0, params.limit)]
    /\ now' = IF async_tasks[TaskId].status = "pending" THEN now + 1 ELSE now
    /\ IF params.batch_size = 0
       THEN \* ZeroDivisionError, caught by `except Exception`
            /\ worker' = [worker EXCEPT !.pc = "fail"]
            /\ UNCHANGED <<loader, calls>>
       ELSE LET n == TotalBatches(params.limit, params.batch_size)
                w == [worker EXCEPT !.total_batches = n]
            IN IF n <= 0
               THEN \* range(total_batches) is empty
                    /\ worker' = [w EXCEPT !.pc = "complete"]
                    /\ UNCHANGED <<loader, calls>>
               ELSE EnterBatch(w, 0)
    /\ UNCHANGED <<active_tasks, params, result, canceller>>
    /\ UNCHANGED <<storeVars, unitVars>>

\* what load_pokemons returns from the counters it has accumulated
Returned(l) ==
    [total_requested |-> l.total_requested, loaded |-> l.loaded,
     updated |-> l.updated, skipped |-> l.skipped, errors |-> l.errors]

\* the dict of the `except Exception` handler of load_pokemons
AllErrors(limit) ==
    [total_requested |-> limit, loaded |-> 0, updated |-> 0, skipped |-> 0,
     errors |-> limit]

\* load_pokemons lets its exception through to process_pokemon_load
LoaderRaised(w) == [w EXCEPT !.pc = "fail"]

\* every path of load_pokemons ends in `return {...}`, the one through its
\* `except Exception` too: the worker resumes after the await of the call
LoaderReturned(w) == [w EXCEPT !.pc = "upd"]

\* what the source answers to the listing call: it cannot be reached, it
\* answers with another status than 200, or it answers 200 with a body
\* that is a JSON object or is not one
ListResponses == {"unreachable", "non200", "object", "not_object"}

\* fetch_data: the body of a 200 answer, {} for a failure of the call and
\* for any other status
fetch_data(response) ==
    IF response \in {"unreachable", "non200"} THEN "{}" ELSE response

\* load_pokemons resumes from `await fetch_pokemon_list(limit, offset)`.
\* fetch_pokemon_list returns data.get('results', []): the empty list when
\* fetch_data returned {}; a body that is no JSON object makes data.get
\* raise.  loader.listing remembers the answer of the source.
WList ==
    /\ worker.pc = "list"
    /\ IF worker.must_cancel
       THEN /\ worker' = Raised(worker)
            /\ UNCHANGED <<loader, result>>
       ELSE LET batch_limit ==
                    BatchLimit(params.limit, worker.batch_num, params.batch_size)
            IN \E response \in ListResponses :
                 IF fetch_data(response) = "not_object"
                 THEN \* exception inside load_pokemons
                      /\ result' = AllErrors(batch_limit)
                      /\ worker' = LoaderReturned(worker)
                      /\ loader' = [loader EXCEPT !.listing = response]
                 ELSE \E n \in 0..(IF fetch_data(response) = "object" /\ batch_limit > 0
                                   THEN batch_limit ELSE 0) :
                        \* pokemon_list has n entries
                        IF n = 0
                        THEN \* `if not pokemon_list`: the all-zero result
                             /\ result' = NoResult
                             /\ worker' = LoaderReturned(worker)
                             /\ loader' = [loader EXCEPT !.listing = response]
                        ELSE /\ loader' = [loader EXCEPT !.total_requested = n,
                                                         !.listing = response]
                             /\ worker' = [worker EXCEPT !.pc = "details"]
                             /\ UNCHANGED result
    /\ UNCHANGED <<async_tasks, active_tasks, params, calls, canceller, now>>
    /\ UNCHANGED <<storeVars, unitVars>>

\* fetch_pokemon_details keeps the non-empty dicts only: a detail fetch that
\* failed (fetch_data returned {}) is not in valid_results
fetch_pokemon_details(l, ok) ==
    [l EXCEPT !.fetched = ok, !.fetch_failed = l.total_requested - ok]

\* load_pokemons resumes from `await fetch_pokemon_details(batch_urls)`;
\* a page of the model fits one sub-batch of self.batch_size = 50 URLs
WDetails ==
    /\ worker.pc = "details"
    /\ IF worker.must_cancel
       THEN /\ worker' = Raised(worker)
            /\ UNCHANGED <<loader, result>>
       ELSE \E ok \in 0..loader.total_requested :
                LET l == fetch_pokemon_details(loader, ok)
                IN /\ loader' = l
                   /\ IF l.fetched = 0
                      THEN /\ result' = Returned(l)
                           /\ worker' = LoaderReturned(worker)
                      ELSE /\ worker' = [worker EXCEPT !.pc = "process"]
                           /\ UNCHANGED result
    /\ UNCHANGED <<async_tasks, active_tasks, params, calls, canceller, now>>
    /\ UNCHANGED <<storeVars, unitVars>>

\* outcomes of one fetched document: process_pokemon returned {} or
\* _save_pokemon returned 'loaded' | 'updated' | 'skipped' | 'error'
ItemOutcomes(force_update) ==
    {"transform_failed", "loaded", "error"}
        \cup (IF force_update THEN {"updated"} ELSE {"skipped"})

\* the body of `for pokemon_data in pokemon_details` for one document
Count(l, outcome) ==
    [l EXCEPT !.i = @ + 1,
              !.loaded = IF outcome = "loaded" THEN @ + 1 ELSE @,
              !.updated = IF outcome = "updated" THEN @ + 1 ELSE @,
              !.skipped = IF outcome = "skipped" THEN @ + 1 ELSE @,
              !.errors = IF outcome \in {"transform_failed", "error"}
                         THEN @ + 1 ELSE @,
              !.transform_failed = IF outcome = "transform_failed"
                                   THEN @ + 1 ELSE @,
              !.save_failed = IF outcome = "error" THEN @ + 1 ELSE @]

\* load_pokemons resumes from `await process_pokemon(pokemon_data)` and
\* saves the record; after the last document it returns its counters
WProcess ==
    /\ worker.pc = "process"
    /\ IF worker.must_cancel
       THEN /\ worker' = Raised(worker)
            /\ UNCHANGED <<loader, result>>
       ELSE \E outcome \in ItemOutcomes(params.force_update) :
                LET l == Count(loader, outcome)
                IN /\ loader' = l
                   /\ IF l.i = l.fetched
                      THEN /\ result' = Returned(l)
                           /\ worker' = LoaderReturned(worker)
                      ELSE UNCHANGED <<worker, result>>
    /\ UNCHANGED <<async_tasks, active_tasks, params, calls, canceller, now>>
    /\ UNCHANGED <<storeVars, unitVars>>

\* total_loaded += ...; total_errors += ...; crud.update_task_progress(...)
WUpdate ==
    /\ worker.pc = "upd"
    /\ worker' = [worker EXCEPT !.pc = "sleep",
                                !.total_loaded = @ + result.loaded,
                                !.total_errors = @ + result.errors,
                                !.ledger.results =
                                    IF worker.ledger.kept THEN Append(@, result) ELSE @]
    /\ async_tasks' = [async_tasks EXCEPT ![TaskId] =
            update_task_progress(@,
                Progress(worker.batch_num, worker.total_batches),
                Processed(worker.batch_num, params.batch_size, params.limit),
                params.limit)]
    /\ now' = IF async_tasks[TaskId].status = "pending" THEN now + 1 ELSE now
    /\ UNCHANGED <<active_tasks, params, loader, result, calls, canceller>>
    /\ UNCHANGED <<storeVars, unitVars>>

\* the coroutine resumes from `await asyncio.sleep(0.5)`: next batch, or
\* the loop is over
WSleep ==
    /\ worker.pc = "sleep"
    /\ IF worker.must_cancel
       THEN /\ worker' = Raised(worker)
            /\ UNCHANGED <<loader, calls>>
       ELSE IF worker.batch_num + 1 < worker.total_batches
            THEN EnterBatch(worker, worker.batch_num + 1)
            ELSE /\ worker' = [worker EXCEPT !.pc = "complete"]
                 /\ UNCHANGED <<loader, calls>>
    /\ UNCHANGED <<async_tasks, active_tasks, params, result, canceller, now>>
    /\ UNCHANGED <<storeVars, unitVars>>

\* the dict process_pokemon_load hands to crud.complete_task
FinalResult(limit, w) ==
    [total_requested |-> limit, loaded |-> w.total_loaded,
     errors |-> w.total_errors]

\* crud.complete_task(db, task_id, {...}); the coroutine returns
WComplete ==
    /\ worker.pc = "complete"
    /\ async_tasks' = [async_tasks EXCEPT ![TaskId] =
            complete_task(@, FinalResult(params.limit, worker))]
    /\ now' = now + 1
    /\ worker' = [worker EXCEPT !.pc = "finished", !.outcome = "returned"]
    /\ UNCHANGED <<active_tasks, params, loader, result, calls, canceller>>
    /\ UNCHANGED <<storeVars, unitVars>>

\* except Exception as e: crud.fail_task(db, task_id, str(e))
WFail ==
    /\ worker.pc = "fail"
    /\ async_tasks' = [async_tasks EXCEPT ![TaskId] =
            fail_task(@, "integer division or modulo by zero")]
    /\ now' = now + 1
    /\ worker' = [worker EXCEPT !.pc = "finished", !.outcome = "returned"]
    /\ UNCHANGED <<active_tasks, params, loader, result, calls, canceller>>
    /\ UNCHANGED <<storeVars, unitVars>>

\* async_task.add_done_callback(lambda t: active_tasks.pop(task_id, None))
DoneCallback ==
    /\ worker.pc = "finished"
    /\ worker' = [worker EXCEPT !.pc = "done"]
    /\ active_tasks' = active_tasks \ {TaskId}
    /\ UNCHANGED <<async_tasks, params, loader, result, calls, canceller, now>>
    /\ UNCHANGED <<storeVars, unitVars>>

\* ----------------------------------------------------------------------
\* cancel_task: runs in a thread of the pool, statement by statement
\* ----------------------------------------------------------------------
\* an exception of cancel_task that goes straight to the 500 answer
HandlerRaisedOnce(c) ==
    [c EXCEPT !.pc = "idle", !.failed = @ + 1, !.status_code = 500]

\* cancel_task raises KeyError.  The exception leaves call_next inside the
\* try of input_validation_middleware, whose `except Exception` logs it and
\* calls call_next(request) again: the handler is entered a second time;
\* an exception of that second call leaves the middleware and is answered
\* with a 500
HandlerRaised(c) ==
    IF c.dispatched = 1
    THEN [c EXCEPT !.pc = "again", !.failed = @ + 1, !.dispatched = 2]
    ELSE [c EXCEPT !.pc = "idle", !.failed = @ + 1, !.status_code = 500]

\* if task_id in active_tasks:  (cancel requests come one after another)
CancelTest ==
    /\ canceller.pc = "idle"
    /\ canceller.requests < MaxCancels
    /\ canceller' = [canceller EXCEPT
            !.requests = @ + 1,
            !.dispatched = 1,
            !.pc = IF TaskId \in active_tasks THEN "signal" ELSE "persist"]
    /\ UNCHANGED <<async_tasks, active_tasks, params, worker, loader, result,
                   calls, now>>
    /\ UNCHANGED <<storeVars, unitVars>>

\* a cancel that tears the task down at once, wherever it is executing
CancelForced(w) ==
    IF w.pc \in {"finished", "done"} THEN w
    ELSE [w EXCEPT !.must_cancel = TRUE, !.pc = "finished",
                   !.outcome = "cancelled"]

\* asyncio.Task.cancel(): nothing on a finished task, else the request is
\* recorded and CancelledError is thrown at the task's next resumption
Cancel(w) ==
    IF w.pc \in {"finished", "done"} THEN w ELSE [w EXCEPT !.must_cancel = TRUE]

\* cancel_task entered again by the second call_next of the middleware:
\* if task_id in active_tasks
CancelAgain ==
    /\ canceller.pc = "again"
    /\ canceller' = [canceller EXCEPT
            !.pc = IF TaskId \in active_tasks THEN "signal" ELSE "persist"]
    /\ UNCHANGED <<async_tasks, active_tasks, params, worker, loader, result,
                   calls, now>>
    /\ UNCHANGED <<storeVars, unitVars>>

\* active_tasks[task_id].cancel(); KeyError when the entry is gone
CancelSignal ==
    /\ canceller.pc = "signal"
    /\ IF TaskId \in active_tasks
       THEN /\ worker' = Cancel(worker)
            /\ canceller' = [canceller EXCEPT !.pc = "del"]
       ELSE /\ canceller' = HandlerRaised(canceller)
            /\ UNCHANGED worker
    /\ UNCHANGED <<async_tasks, active_tasks, params, loader, result, calls, now>>
    /\ UNCHANGED <<storeVars, unitVars>>

\* del active_tasks[task_id]; KeyError when the entry is gone
CancelDel ==
    /\ canceller.pc = "del"
    /\ IF TaskId \in active_tasks
       THEN /\ active_tasks' = active_tasks \ {TaskId}
            /\ canceller' = [canceller EXCEPT !.pc = "persist"]
       ELSE /\ canceller' = HandlerRaised(canceller)
            /\ UNCHANGED active_tasks
    /\ UNCHANGED <<async_tasks, params, worker, loader, result, calls, now>>
    /\ UNCHANGED <<storeVars, unitVars>>

\* task = crud.get_task(db, task_id); if task: status, completed_at, commit;
\* return schemas.BaseResponse(success=True, ...)
CancelPersist ==
    /\ canceller.pc = "persist"
    /\ canceller' = [canceller EXCEPT !.pc = "idle", !.status_code = 200]
    /\ IF TaskId \in DOMAIN async_tasks
       THEN /\ async_tasks' = [async_tasks EXCEPT ![TaskId] = cancel_row(@)]
            /\ now' = now + 1
       ELSE UNCHANGED <<async_tasks, now>>
    /\ UNCHANGED <<active_tasks, params, worker, loader, result, calls>>
    /\ UNCHANGED <<storeVars, unitVars>>

\* get_task_status: the status code of GET /admin/tasks/{task_id}; the
\* handler reads the row and the registry and writes nothing
get_task_status(task_id) == IF task_id \in DOMAIN async_tasks THEN 200 ELSE 404

\* ----------------------------------------------------------------------
\* The import task under cancel requests
\* ----------------------------------------------------------------------
Next ==
    \/ StartCreate
    \/ StartSpawn
    \/ WStart
    \/ WUpdate0
    \/ WList
    \/ WDetails
    \/ WProcess
    \/ WUpdate
    \/ WSleep
    \/ WComplete
    \/ WFail
    \/ DoneCallback
    \/ CancelTest
    \/ CancelAgain
    \/ CancelSignal
    \/ CancelDel
    \/ CancelPersist

Spec == Init /\ [][Next]_vars

\* ----------------------------------------------------------------------
\* The import task left to run, with the ledger of its batch results
\* ----------------------------------------------------------------------
InitLedger ==
    /\ async_tasks = [id \in {} |-> None]
    /\ active_tasks = {}
    /\ params = [limit |-> 1, offset |-> 0, batch_size |-> 1, force_update |-> FALSE]
    /\ worker = [IdleWorker EXCEPT !.ledger.kept = TRUE]
    /\ loader = IdleLoader
    /\ result = NoResult
    /\ calls = << >>
    /\ canceller = [pc |-> "idle", requests |-> 0, dispatched |-> 0, failed |-> 0,
                    status_code |-> None]
    /\ now = 1
    /\ pokemons = << >>
    /\ abilities = {}
    /\ types = {}
    /\ writers = [w \in Writers |-> IdleWriter]
    /\ extraction = IdleExtraction
    /\ gathering = IdleGathering
    /\ middleware = IdleMiddleware

NextLedger ==
    \/ StartCreate
    \/ StartSpawn
    \/ WStart
    \/ WUpdate0
    \/ WList
    \/ WDetails
    \/ WProcess
    \/ WUpdate
    \/ WSleep
    \/ WComplete
    \/ WFail
    \/ DoneCallback

SpecLedger == InitLedger /\ [][NextLedger]_vars

\* ----------------------------------------------------------------------
\* The catalog: tables pokemons, abilities and types (app/models.py)
\* ----------------------------------------------------------------------
\* A name is a sequence of characters, so that letter case and padding are
\* part of it.  The nine descriptive columns (height, weight, species, ...)
\* are copied exactly as the seven stat columns are; the stat columns stand
\* for all of them.

\* names the external source sends in its documents
SourceNames == {<<"p", "i">>, <<"P", "i">>, <<"m", "e", "w">>}
\* names a client sends in a request body
BodyNames == {<<"P", "i", " ">>, <<"m", "e", "w">>}

LowerCase == ("P" :> "p") @@ ("M" :> "m")
\* str.lower()
lower(v) == [i \in DOMAIN v |-> IF v[i] \in DOMAIN LowerCase THEN LowerCase[v[i]] ELSE v[i]]

RECURSIVE lstrip(_)
lstrip(v) == IF v # << >> /\ Head(v) = " " THEN lstrip(Tail(v)) ELSE v
RECURSIVE rstrip(_)
rstrip(v) == IF v # << >> /\ v[Len(v)] = " " THEN rstrip(SubSeq(v, 1, Len(v) - 1)) ELSE v
\* str.strip()
strip(v) == rstrip(lstrip(v))

\* PokemonBase.format_name: the validator of the request body's name
format_name(v) == lower(strip(v))

\* the 'stats' list of a source document: <<stat name, base_stat>> entries
\* and its 'abilities' and 'types' lists, as the source serves them at two
\* different times
Versions ==
    { [stats |-> << <<"hp", 1>>, <<"attack", 2>> >>,
       abilities |-> <<"static">>,
       types |-> <<"electric">>],
      [stats |-> << <<"hp", 2>>, <<"speed", 1>>, <<"accuracy", 1>> >>,
       abilities |-> <<"static", "rod", "static">>,
       types |-> << >>] }

RawDocs ==
    { [name |-> n, stats |-> v.stats, abilities |-> v.abilities, types |-> v.types] :
        n \in SourceNames, v \in Versions }

RECURSIVE SumValues(_)
\* sum(stats_dict.values())
SumValues(d) ==
    IF DOMAIN d = {} THEN 0
    ELSE LET k == CHOOSE k \in DOMAIN d : TRUE
         IN d[k] + SumValues([j \in DOMAIN d \ {k} |-> d[j]])

\* stats_dict.get(key, 0)
Get(d, key) == IF key \in DOMAIN d THEN d[key] ELSE 0

\* PokemonService.extract_base_stats
extract_base_stats(stats) ==
    LET last(n) == CHOOSE i \in DOMAIN stats :
                       /\ stats[i][1] = n
                       /\ \A j \in DOMAIN stats : stats[j][1] = n => j <= i
        stats_dict == [n \in {stats[i][1] : i \in DOMAIN stats} |-> stats[last(n)][2]]
    IN [hp |-> Get(stats_dict, "hp"),
        attack |-> Get(stats_dict, "attack"),
        defense |-> Get(stats_dict, "defense"),
        special_attack |-> Get(stats_dict, "special-attack"),
        special_defense |-> Get(stats_dict, "special-defense"),
        speed |-> Get(stats_dict, "speed"),
        total_stats |-> SumValues(stats_dict)]

\* PokemonService.process_pokemon: the processed record of a document
process_pokemon(pokemon_data) ==
    [name |-> pokemon_data.name,
     base_stats |-> extract_base_stats(pokemon_data.stats),
     abilities |-> pokemon_data.abilities,
     types |-> pokemon_data.types]

\* pokemon_dict of _save_pokemon: the columns written from a processed record
pokemon_dict(pokemon_data) ==
    [name |-> pokemon_data.name,
     hp |-> pokemon_data.base_stats.hp,
     attack |-> pokemon_data.base_stats.attack,
     defense |-> pokemon_data.base_stats.defense,
     special_attack |-> pokemon_data.base_stats.special_attack,
     special_defense |-> pokemon_data.base_stats.special_defense,
     speed |-> pokemon_data.base_stats.speed,
     total_stats |-> pokemon_data.base_stats.total_stats]

\* request bodies (schemas.PokemonCreate): hp and total_stats are two fields
\* of the body, the other five stats keep their default
BodyStats == {[hp |-> 1, total_stats |-> 1], [hp |-> 1, total_stats |-> 0]}
Bodies ==
    { [name |-> n, hp |-> s.hp, total_stats |-> s.total_stats,
       abilities |-> v.abilities, types |-> v.types] :
        n \in BodyNames, s \in BodyStats, v \in Versions }

\* the columns models.Pokemon(...) gets from a validated request body
body_columns(pokemon) ==
    [name |-> format_name(pokemon.name),
     hp |-> pokemon.hp,
     attack |-> 0,
     defense |-> 0,
     special_attack |-> 0,
     special_defense |-> 0,
     speed |-> 0,
     total_stats |-> pokemon.total_stats]

Range(s) == {s[i] : i \in DOMAIN s}

\* the loop of _add_relationships without its `not in` test
add_unchecked(linked, names) == linked \o names

RECURSIVE add_relationships(_, _)
\* one loop of _add_relationships over the names of the record: the row of
\* each name is looked up or created, and appended to the collection of
\* the pokemon `if ability not in pokemon.abilities`
add_relationships(linked, names) ==
    IF names = << >> THEN linked
    ELSE add_relationships(IF Head(names) \in Range(linked) THEN linked
                           ELSE Append(linked, Head(names)),
                           Tail(names))

\* one collection in _update_relationships: clear(), then the loop
update_relationships(linked, names) == add_relationships(<< >>, names)

\* a row of pokemons with its rows of pokemon_abilities and pokemon_types,
\* in the order of the collections pokemon.abilities and pokemon.types
PokemonRow(columns, ability_names, type_names) ==
    [name |-> columns.name,
     hp |-> columns.hp,
     attack |-> columns.attack,
     defense |-> columns.defense,
     special_attack |-> columns.special_attack,
     special_defense |-> columns.special_defense,
     speed |-> columns.speed,
     total_stats |-> columns.total_stats,
     abilities |-> ability_names,
     types |-> type_names]

Ids == DOMAIN pokemons

\* the lookup as it would be if it ignored letter case
FindByNameAnyCase(name) ==
    IF \E i \in Ids : lower(pokemons[i].name) = lower(name)
    THEN CHOOSE i \in Ids : /\ lower(pokemons[i].name) = lower(name)
                            /\ \A j \in Ids : lower(pokemons[j].name) = lower(name) => i <= j
    ELSE None

\* db.query(Pokemon).filter(Pokemon.name == name).first()
FindByName(name) ==
    IF \E i \in Ids : pokemons[i].name = name
    THEN CHOOSE i \in Ids : /\ pokemons[i].name = name
                            /\ \A j \in Ids : pokemons[j].name = name => i <= j
    ELSE None

\* crud.get_pokemon_by_name: func.lower(Pokemon.name) == name.strip().lower()
get_pokemon_by_name(name) ==
    IF \E i \in Ids : lower(pokemons[i].name) = lower(strip(name))
    THEN CHOOSE i \in Ids : /\ lower(pokemons[i].name) = lower(strip(name))
                            /\ \A j \in Ids :
                                 lower(pokemons[j].name) = lower(strip(name)) => i <= j
    ELSE None

\* pokemons.name without its unique index
NameNeverTaken(name, id) == FALSE

\* the unique index on pokemons.name: another row holds this very name
NameTaken(name, id) == \E i \in Ids : i # id /\ pokemons[i].name = name

\* a request body names twice an ability (type) that has no row yet: with
\* autoflush off both are added, and the flush breaks the unique index
TwiceNew(names, table) ==
    \E i, j \in DOMAIN names : i < j /\ names[i] = names[j] /\ names[i] \notin table

\* ----------------------------------------------------------------------
\* Writers of the catalog.  The lookup and the commit of a writer are two
\* statements sent to the database: another session (a request served by a
\* worker thread, another server process) can commit between them.
\* ----------------------------------------------------------------------
OpsStarted == writers["w1"].ops + writers["w2"].ops

Begin(w, op, columns, ability_names, type_names, force_update) ==
    [writers[w] EXCEPT !.op = op, !.columns = columns,
                       !.abilities = ability_names, !.types = type_names,
                       !.force_update = force_update, !.ops = @ + 1,
                       !.last = writers[w].outcome, !.raised = "none"]

\* _save_pokemon without its early return
SaveLookupForced(w) ==
    /\ writers[w].pc = "idle"
    /\ OpsStarted < MaxOps
    /\ \E raw \in RawDocs, force_update \in BOOLEAN :
          LET pokemon_data == process_pokemon(raw)
              b == Begin(w, "save", pokemon_dict(pokemon_data),
                         pokemon_data.abilities, pokemon_data.types, force_update)
          IN writers' = [writers EXCEPT ![w] =
                 [b EXCEPT !.existing = FindByName(pokemon_data.name),
                           !.outcome = "none", !.pc = "write"]]
    /\ UNCHANGED <<pokemons, abilities, types>>
    /\ UNCHANGED <<taskVars, unitVars>>

\* _save_pokemon up to the decision: the lookup by name and the skip
SaveLookup(w) ==
    /\ writers[w].pc = "idle"
    /\ OpsStarted < MaxOps
    /\ \E raw \in RawDocs, force_update \in BOOLEAN :
          LET pokemon_data == process_pokemon(raw)
              existing_pokemon == FindByName(pokemon_data.name)
              b == Begin(w, "save", pokemon_dict(pokemon_data),
                         pokemon_data.abilities, pokemon_data.types, force_update)
          IN writers' = [writers EXCEPT ![w] =
                 IF existing_pokemon # None /\ ~force_update
                 THEN [b EXCEPT !.existing = existing_pokemon, !.outcome = "skipped"]
                 ELSE [b EXCEPT !.existing = existing_pokemon, !.outcome = "none",
                                !.pc = "write"]]
    /\ UNCHANGED <<pokemons, abilities, types>>
    /\ UNCHANGED <<taskVars, unitVars>>

\* where a statement of the transaction of _save_pokemon raises: nowhere,
\* at the flush of the pokemon row, inside _add_relationships after that
\* flush, or at the commit
RaisePoints == {"none", "flush", "relationships", "commit"}

\* the tables as the open transaction of writer `me` has them when it
\* raises at `point`
Flushed(me, point) ==
    LET put(row) == IF me.existing # None
                    THEN [pokemons EXCEPT ![me.existing] = row]
                    ELSE Append(pokemons, row)
    IN CASE point = "flush" -> <<pokemons, abilities, types>>
         [] point = "relationships" ->
                <<put(PokemonRow(me.columns, << >>, << >>)), abilities, types>>
         [] OTHER ->
                <<put(IF me.existing # None
                      THEN PokemonRow(me.columns,
                               update_relationships(pokemons[me.existing].abilities,
                                                    me.abilities),
                               update_relationships(pokemons[me.existing].types,
                                                    me.types))
                      ELSE PokemonRow(me.columns,
                               add_relationships(<< >>, me.abilities),
                               add_relationships(<< >>, me.types))),
                  abilities \cup Range(me.abilities), types \cup Range(me.types)>>

\* the tables after an exception that is not followed by a rollback
left_open(committed, flushed) == flushed

\* self.db.rollback(): what the transaction has flushed is discarded
rollback(committed, flushed) == committed

\* _save_pokemon from the decision on: setattr and _update_relationships, or
\* add and _add_relationships, then commit; any exception rolls back.  The
\* flush raises IntegrityError when another row has the name; any statement
\* can raise for a reason of the database.
SaveWrite(w) ==
    /\ writers[w].pc = "write"
    /\ writers[w].op = "save"
    /\ \E point \in RaisePoints :
         LET me == writers[w]
             raised == IF NameTaken(me.columns.name, me.existing)
                       THEN "flush" ELSE point
             after == IF raised = "none"
                      THEN Flushed(me, "commit")
                      ELSE rollback(<<pokemons, abilities, types>>, Flushed(me, raised))
         IN /\ pokemons' = after[1]
            /\ abilities' = after[2]
            /\ types' = after[3]
            /\ writers' = [writers EXCEPT ![w] =
                   [me EXCEPT !.pc = "idle",
                              !.raised = raised,
                              !.outcome = IF raised # "none" THEN "error"
                                          ELSE IF me.existing # None
                                          THEN "updated" ELSE "loaded"]]
    /\ UNCHANGED <<taskVars, unitVars>>

\* POST /pokemon up to crud.create_pokemon: the check by get_pokemon_by_name
CreateLookup(w) ==
    /\ writers[w].pc = "idle"
    /\ OpsStarted < MaxOps
    /\ \E pokemon \in Bodies :
          LET columns == body_columns(pokemon)
              db_pokemon == get_pokemon_by_name(columns.name)
              b == Begin(w, "create", columns, pokemon.abilities, pokemon.types, FALSE)
          IN writers' = [writers EXCEPT ![w] =
                 IF db_pokemon # None
                 THEN [b EXCEPT !.existing = db_pokemon, !.outcome = "400"]
                 ELSE [b EXCEPT !.existing = None, !.outcome = "none", !.pc = "write"]]
    /\ UNCHANGED <<pokemons, abilities, types>>
    /\ UNCHANGED <<taskVars, unitVars>>

\* crud.create_pokemon: it appends the row of every name of the body to the
\* collections without a test; no handler around it, an IntegrityError is
\* a 500
CreateWrite(w) ==
    /\ writers[w].pc = "write"
    /\ writers[w].op = "create"
    /\ LET me == writers[w]
       IN IF \/ NameTaken(me.columns.name, None)
             \/ TwiceNew(me.abilities, abilities)
             \/ TwiceNew(me.types, types)
          THEN /\ writers' = [writers EXCEPT ![w] =
                      [me EXCEPT !.pc = "idle", !.outcome = "500"]]
               /\ UNCHANGED <<pokemons, abilities, types>>
          ELSE /\ pokemons' = Append(pokemons,
                      PokemonRow(me.columns, me.abilities, me.types))
               /\ abilities' = abilities \cup Range(me.abilities)
               /\ types' = types \cup Range(me.types)
               /\ writers' = [writers EXCEPT ![w] =
                      [me EXCEPT !.pc = "idle", !.outcome = "201"]]
    /\ UNCHANGED <<taskVars, unitVars>>

\* PUT /pokemon/{pokemon_id}: crud.get_pokemon, then crud.update_pokemon
UpdatePokemon(w) ==
    /\ writers[w].pc = "idle"
    /\ OpsStarted < MaxOps
    /\ \E pokemon_id \in 1..(Len(pokemons) + 1), pokemon_update \in Bodies :
          LET columns == body_columns(pokemon_update)
              b == Begin(w, "update", columns, pokemon_update.abilities,
                         pokemon_update.types, FALSE)
          IN IF pokemon_id \notin Ids
             THEN /\ writers' = [writers EXCEPT ![w] =
                         [b EXCEPT !.existing = None, !.outcome = "404"]]
                  /\ UNCHANGED <<pokemons, abilities, types>>
             ELSE IF \/ NameTaken(columns.name, pokemon_id)
                     \/ TwiceNew(pokemon_update.abilities, abilities)
                     \/ TwiceNew(pokemon_update.types, types)
             THEN /\ writers' = [writers EXCEPT ![w] =
                         [b EXCEPT !.existing = pokemon_id, !.outcome = "500"]]
                  /\ UNCHANGED <<pokemons, abilities, types>>
             ELSE /\ pokemons' = [pokemons EXCEPT ![pokemon_id] =
                         PokemonRow(columns, pokemon_update.abilities,
                                    pokemon_update.types)]
                  /\ abilities' = abilities \cup Range(pokemon_update.abilities)
                  /\ types' = types \cup Range(pokemon_update.types)
                  /\ writers' = [writers EXCEPT ![w] =
                         [b EXCEPT !.existing = pokemon_id, !.outcome = "200"]]
    /\ UNCHANGED <<taskVars, unitVars>>

NextStore ==
    \/ \E w \in Writers : SaveLookup(w)
    \/ \E w \in Writers : SaveWrite(w)
    \/ \E w \in Writers : CreateLookup(w)
    \/ \E w \in Writers : CreateWrite(w)
    \/ \E w \in Writers : UpdatePokemon(w)

SpecStore == Init /\ [][NextStore]_vars

\* ----------------------------------------------------------------------
\* The import task under the scheduling of the event loop and the pool
\* ----------------------------------------------------------------------
\* the event loop runs a task that is ready and the callbacks of a task
\* that is done; every call the worker awaits returns
WorkerStep ==
    \/ StartSpawn
    \/ WStart
    \/ WUpdate0
    \/ WList
    \/ WDetails
    \/ WProcess
    \/ WUpdate
    \/ WSleep
    \/ WComplete
    \/ WFail
    \/ DoneCallback

\* the pool thread that has entered cancel_task runs it to its end
CancelStep ==
    \/ CancelAgain
    \/ CancelSignal
    \/ CancelDel
    \/ CancelPersist

SpecFair ==
    /\ Init
    /\ [][Next]_vars
    /\ WF_vars(WorkerStep)
    /\ WF_vars(CancelStep)

\* ----------------------------------------------------------------------
\* AsyncPokeAPIService.extract_evolutions
\* ----------------------------------------------------------------------
MaxNodes == 4

\* the application as constructed, with no task and no writer started
Constructed ==
    /\ async_tasks = [id \in {} |-> None]
    /\ active_tasks = {}
    /\ params = [limit |-> 1, offset |-> 0, batch_size |-> 1, force_update |-> FALSE]
    /\ worker = IdleWorker
    /\ loader = IdleLoader
    /\ result = NoResult
    /\ calls = << >>
    /\ canceller = [pc |-> "idle", requests |-> 0, dispatched |-> 0, failed |-> 0,
                    status_code |-> None]
    /\ now = 1
    /\ pokemons = << >>
    /\ abilities = {}
    /\ types = {}
    /\ writers = [w \in Writers |-> IdleWriter]

\* {} of the JSON documents
EmptyDict == << >>
\* None where the other values are strings
NoTrigger == "None"

\* d.get(key, default)
GetOr(d, key, default) == IF key \in DOMAIN d THEN d[key] ELSE default

\* species of the nodes of a chain, by position in the document
NodeNames == <<"a", "b", "c", "d", "e", "f">>
NodeUrls == <<"species/1", "species/2", "species/3", "species/4", "species/5",
              "species/6">>

\* evolution_details of a node: none, one, or two of which the first has no
\* min_level
DetailLists ==
    { << >>,
      << [min_level |-> 16, trigger |-> [name |-> "level-up"]] >>,
      << [trigger |-> [name |-> "trade"]],
         [min_level |-> 30, trigger |-> [name |-> "level-up"]] >> }

\* the k-th smallest element of a set of numbers
Nth(S, k) == CHOOSE x \in S : Cardinality({y \in S : y < x}) = k - 1

RECURSIVE ChainNode(_, _, _, _)
\* the node i of a chain of n nodes, parent[j] being the node that j
\* evolves from and det[j] its evolution_details
ChainNode(i, n, parent, det) ==
    LET kids == {j \in (i + 1)..n : parent[j] = i}
    IN [species |-> [name |-> NodeNames[i], url |-> NodeUrls[i]],
        evolution_details |-> det[i],
        evolves_to |-> [k \in 1..Cardinality(kids) |->
                            ChainNode(Nth(kids, k), n, parent, det)]]

\* the documents /evolution-chain/{id} can answer with: chains of up to
\* MaxNodes nodes, and the documents with parts missing
EvolutionDocs ==
    { [id |-> 1, chain |-> ChainNode(1, plan[1], plan[2], plan[3])] :
        plan \in UNION { { <<n, parent, det>> :
                             parent \in { f \in [2..n -> 1..n] :
                                            \A j \in 2..n : f[j] < j },
                             det \in [1..n -> DetailLists] } :
                         n \in 1..MaxNodes } }
    \cup { EmptyDict,
           [id |-> 1],
           [id |-> 1, chain |-> EmptyDict],
           [id |-> 1, chain |-> [species |-> [name |-> "a"]]],
           [id |-> 1, chain |-> [evolves_to |->
                                    << EmptyDict,
                                       [species |-> [name |-> "b", url |-> "species/2"],
                                        evolution_details |-> << [min_level |-> 16] >>]
                                    >>]] }

\* evolution_details[-1]
last_detail(evolution_details) == evolution_details[Len(evolution_details)]

\* evolution_details[0]
first_detail(evolution_details) == evolution_details[1]

RECURSIVE traverse_chain(_, _)
RECURSIVE traverse_evolves_to(_, _)
\* traverse_chain: appends the entry of the node, then traverses the
\* chains of evolves_to in their order
traverse_chain(evolutions, chain) ==
    IF DOMAIN chain = {} THEN evolutions
    ELSE LET species == GetOr(chain, "species", EmptyDict)
             evolution_details == GetOr(chain, "evolution_details", << >>)
             entry ==
                 [name |-> GetOr(species, "name", ""),
                  url |-> GetOr(species, "url", ""),
                  min_level |->
                      IF Len(evolution_details) > 0
                      THEN GetOr(first_detail(evolution_details), "min_level", None)
                      ELSE None,
                  trigger |->
                      IF Len(evolution_details) > 0
                      THEN GetOr(GetOr(first_detail(evolution_details),
                                       "trigger", EmptyDict),
                                 "name", NoTrigger)
                      ELSE NoTrigger]
         IN traverse_evolves_to(Append(evolutions, entry),
                                GetOr(chain, "evolves_to", << >>))

\* for next_chain in chain.get('evolves_to', []): traverse_chain(next_chain)
traverse_evolves_to(evolutions, evolves_to) ==
    IF Len(evolves_to) = 0 THEN evolutions
    ELSE traverse_evolves_to(traverse_chain(evolutions, Head(evolves_to)),
                             Tail(evolves_to))

extract_evolutions(evolution_data) ==
    IF DOMAIN evolution_data = {} THEN << >>
    ELSE traverse_chain(<< >>, GetOr(evolution_data, "chain", EmptyDict))

InitEvolutions ==
    /\ Constructed
    /\ \E evolution_data \in EvolutionDocs :
         extraction = [pc |-> "called", evolution_data |-> evolution_data,
                       evolutions |-> << >>]
    /\ gathering = IdleGathering
    /\ middleware = IdleMiddleware

ExtractEvolutions ==
    /\ extraction.pc = "called"
    /\ extraction' = [extraction EXCEPT
                        !.pc = "returned",
                        !.evolutions = extract_evolutions(extraction.evolution_data)]
    /\ UNCHANGED <<taskVars, storeVars, gathering, middleware>>

NextEvolutions == ExtractEvolutions

SpecEvolutions == InitEvolutions /\ [][NextEvolutions]_vars

\* ----------------------------------------------------------------------
\* AsyncPokeAPIService.fetch_pokemon_details
\* ----------------------------------------------------------------------
MaxUrls == 12
SEMAPHORE_LIMIT == 10

\* what one fetch_with_semaphore task gives to gather: the dict of the
\* answer, the {} of fetch_data for a failure, or an exception
FetchResults == {"dict", "empty", "exception"}

\* fetch_pokemon_details called with a page of urls: the semaphore is
\* created with SEMAPHORE_LIMIT permits and one task per url is handed to
\* gather
InitDetails ==
    /\ Constructed
    /\ extraction = IdleExtraction
    /\ \E n \in 0..MaxUrls :
         gathering = [pc |-> "gather", semaphore |-> SEMAPHORE_LIMIT,
                      tasks |-> [u \in 1..n |-> "created"], valid_results |-> 0]
    /\ middleware = IdleMiddleware

\* Semaphore.locked() never true
never_locked(value) == FALSE

\* Semaphore.locked(): no permit left
locked(value) == value = 0

\* async with semaphore, on entry: takes a permit when there is one
acquire(g, u) == [g EXCEPT !.semaphore = @ - 1, !.tasks[u] = "acquired"]

\* the first step of a task, in the order gather created them: enters the
\* semaphore or waits for a permit
FetchStart(u) ==
    /\ gathering.pc = "gather"
    /\ u \in DOMAIN gathering.tasks
    /\ gathering.tasks[u] = "created"
    /\ \A v \in 1..(u - 1) : gathering.tasks[v] # "created"
    /\ gathering' = IF locked(gathering.semaphore)
                    THEN [gathering EXCEPT !.tasks[u] = "waiting"]
                    ELSE acquire(gathering, u)
    /\ UNCHANGED <<taskVars, storeVars, extraction, middleware>>

\* a waiting task resumes after a release and enters the semaphore
FetchWake(u) ==
    /\ gathering.pc = "gather"
    /\ u \in DOMAIN gathering.tasks
    /\ gathering.tasks[u] = "waiting"
    /\ ~locked(gathering.semaphore)
    /\ gathering' = acquire(gathering, u)
    /\ UNCHANGED <<taskVars, storeVars, extraction, middleware>>

\* fetch_data returns or raises, and the task leaves the semaphore
FetchDone(u) ==
    /\ gathering.pc = "gather"
    /\ u \in DOMAIN gathering.tasks
    /\ gathering.tasks[u] = "acquired"
    /\ \E fetched \in FetchResults :
         gathering' = [gathering EXCEPT
                          !.semaphore = @ + 1,
                          !.tasks[u] = "done",
                          !.valid_results = IF fetched = "dict" THEN @ + 1 ELSE @]
    /\ UNCHANGED <<taskVars, storeVars, extraction, middleware>>

\* gather returns when every task is done; valid_results is returned
GatherReturn ==
    /\ gathering.pc = "gather"
    /\ \A u \in DOMAIN gathering.tasks : gathering.tasks[u] = "done"
    /\ gathering' = [gathering EXCEPT !.pc = "returned"]
    /\ UNCHANGED <<taskVars, storeVars, extraction, middleware>>

NextDetails ==
    \/ \E u \in 1..MaxUrls : FetchStart(u)
    \/ \E u \in 1..MaxUrls : FetchWake(u)
    \/ \E u \in 1..MaxUrls : FetchDone(u)
    \/ GatherReturn

SpecDetails == InitDetails /\ [][NextDetails]_vars

\* ----------------------------------------------------------------------
\* input_validation_middleware
\* ----------------------------------------------------------------------
\* the paths of the requests: one outside /pokemon and /admin, a catalog
\* path, the cancel request and the batch import
Paths == {"/docs", "/pokemon", "/admin/tasks/t1/cancel", "/admin/load-pokemons-batch"}
Methods == {"GET", "POST"}
\* the limit of the query string; None when the request has none
QueryLimits == {None, -1, 1, QueryLimitMax, QueryLimitMax + 1}

\* the places of input_validation_middleware that call call_next: for a
\* path that is not validated, inside the try, and in `except Exception`
FirstCall == "not validated"
TryCall == "try"
ExceptCall == "except"

\* any(request.url.path.startswith(path) for path in valid_paths)
should_validate(path) == path # "/docs"

\* what the downstream application does with the request: the response of
\* the handler (HTTPException included, answered by the exception handlers
\* below the middleware), or an exception that call_next raises again.
\* load_pokemons_batch creates its import task and then assigns an item to
\* its BackgroundTasks argument, which raises TypeError
HandlerOutcomes(path) ==
    IF path = "/admin/load-pokemons-batch" THEN {"raises"}
    ELSE {"returns", "raises"}

InitMiddleware ==
    /\ Constructed
    /\ extraction = IdleExtraction
    /\ gathering = IdleGathering
    /\ \E path \in Paths, method \in Methods, limit \in QueryLimits :
         middleware = [IdleMiddleware EXCEPT !.pc = "received", !.path = path,
                                             !.method = method, !.limit = limit]

\* input_validation_middleware up to its first call_next: the path test,
\* validate_query_params, and for POST the reading of the body, which
\* raises when the client has gone
MiddlewareEnter ==
    /\ middleware.pc = "received"
    /\ IF ~should_validate(middleware.path)
       THEN middleware' = [middleware EXCEPT !.pc = "call", !.called_from = FirstCall]
       ELSE IF middleware.limit # None /\ ~validate_query_params(middleware.limit)
       THEN middleware' = [middleware EXCEPT !.pc = "responded", !.status_code = 400]
       ELSE \E body_read \in (IF middleware.method = "POST"
                              THEN BOOLEAN ELSE {TRUE}) :
              middleware' = [middleware EXCEPT
                                !.pc = "call",
                                !.called_from = IF body_read THEN TryCall ELSE ExceptCall]
    /\ UNCHANGED <<taskVars, storeVars, extraction, gathering>>

\* an exception of call_next: inside the try it is caught by
\* `except Exception`, which calls call_next(request) again; elsewhere it
\* leaves the middleware and is answered with a 500
call_next_raised(m) ==
    IF m.called_from = TryCall
    THEN [m EXCEPT !.pc = "call", !.called_from = ExceptCall]
    ELSE [m EXCEPT !.pc = "responded", !.status_code = 500]

\* await call_next(request): the downstream application runs the handler.
\* A call made from the except branch of a POST may end before the handler
\* is entered, the body being no longer receivable
MiddlewareCallNext ==
    /\ middleware.pc = "call"
    /\ \E entered \in (IF middleware.method = "POST" /\ middleware.called_from = ExceptCall
                       THEN BOOLEAN ELSE {TRUE}),
          outcome \in HandlerOutcomes(middleware.path) :
         LET called == [middleware EXCEPT
                           !.dispatched = @ + 1,
                           !.launched =
                               IF entered /\ middleware.path = "/admin/load-pokemons-batch"
                               THEN @ + 1 ELSE @]
         IN middleware' = IF entered /\ outcome = "returns"
                          THEN [called EXCEPT !.pc = "responded", !.status_code = 200]
                          ELSE call_next_raised(called)
    /\ UNCHANGED <<taskVars, storeVars, extraction, gathering>>

NextMiddleware ==
    \/ MiddlewareEnter
    \/ MiddlewareCallNext

SpecMiddleware == InitMiddleware /\ [][NextMiddleware]_vars

\* ----------------------------------------------------------------------
\* Properties
\* ----------------------------------------------------------------------
HasRow == TaskId \in DOMAIN async_tasks
Row == async_tasks[TaskId]

\* a step of the worker or of the canceller that commits to the task row
RowWritten == HasRow /\ HasRow' /\ Row' # Row
WrittenByWorker == RowWritten /\ canceller' = canceller

AllowedTransitions ==
    {<<"pending", "running">>, <<"running", "completed">>,
     <<"running", "failed">>, <<"pending", "cancelled">>,
     <<"running", "cancelled">>}

\* C1: the persisted status changes only along pending->running,
\* running->completed, running->failed, pending->cancelled and
\* running->cancelled; a terminal status is never replaced by another one.
C1_StatusTransitions ==
    [][(HasRow /\ HasRow' /\ Row'.status # Row.status)
        => <<Row.status, Row'.status>> \in AllowedTransitions]_vars

\* C2: a cancel request for a task whose status is already completed,
\* failed or cancelled leaves status, completed_at, result and error of the
\* row as they were.
C2_CancelTerminalNoop ==
    [][(CancelPersist /\ HasRow /\ Row.status \in Terminal)
        => /\ Row'.status = Row.status
           /\ Row'.completed_at = Row.completed_at
           /\ Row'.result = Row.result
           /\ Row'.error = Row.error]_vars

\* C3: completed rows have a result and no error, failed rows an error and
\* no result, pending and running rows neither, and the commit of a cancel
\* request writes neither result nor error.
C3_ResultErrorByStatus ==
    HasRow =>
        /\ Row.status = "completed" => (Row.result # <<>> /\ Row.error = NoError)
        /\ Row.status = "failed" => (Row.error # NoError /\ Row.result = <<>>)
        /\ Row.status \in {"pending", "running"}
                => (Row.result = <<>> /\ Row.error = NoError)

C3_ResultError ==
    /\ []C3_ResultErrorByStatus
    /\ [][(CancelPersist /\ HasRow)
            => (Row'.result = Row.result /\ Row'.error = Row.error)]_vars

\* the cancel request met a running worker, and a failed task was cancelled
C3_Witness ==
    /\ HasRow
    /\ Row.status = "cancelled"
    /\ Row.error # NoError
    /\ canceller.requests = 1
    /\ canceller.pc = "idle"

\* positions where the coroutine is suspended at an await (or not yet run)
AwaitPcs == {"start", "list", "details", "process", "sleep"}
\* positions inside synchronous code, between two awaits
SyncPcs == {"upd0", "upd", "complete", "fail"}

\* the step in which the worker is stopped by the stop signal
Stopped == worker.outcome # "cancelled" /\ worker'.outcome = "cancelled"

\* C4 (as claimed): a cancel request for a pending or running task leaves
\* the row cancelled with completed_at set, and once the stop signal has
\* been sent to the worker the worker starts no further batch and commits
\* nothing more to the row.
C4_CancelForcesCancelled ==
    /\ [][(CancelPersist /\ HasRow /\ Row.status \in {"pending", "running"})
            => (Row'.status = "cancelled" /\ Row'.completed_at # None)]_vars
    /\ [][worker.must_cancel => (~WrittenByWorker /\ calls' = calls)]_vars

\* C4 (amended): the commit of a cancel request for a pending or running
\* task leaves the row cancelled with completed_at set, however many
\* batches had been done; a worker that gets the stop signal while it is
\* suspended at an await, or before its first step, starts no further batch
\* and commits nothing more; a worker that gets it inside synchronous code
\* still performs the writes of that code.
C4_CancelAtAwait ==
    /\ [][(CancelPersist /\ HasRow /\ Row.status \in {"pending", "running"})
            => (Row'.status = "cancelled" /\ Row'.completed_at # None)]_vars
    /\ [][(worker.must_cancel /\ worker.pc \notin SyncPcs)
            => (~WrittenByWorker /\ calls' = calls)]_vars
    /\ [][(worker.must_cancel /\ worker.pc \in AwaitPcs /\ worker'.pc # worker.pc)
            => Stopped]_vars

\* a running task cancelled after its first batch, the worker stopped
C4_Witness ==
    /\ HasRow
    /\ Row.status = "cancelled"
    /\ Row.completed_at # None
    /\ Row.processed_items > 0
    /\ worker.outcome = "cancelled"
    /\ worker.total_batches > worker.batch_num + 1

\* C5 (as claimed): the worker stops only at a batch boundary or at the
\* inter-batch pause, so every batch that has begun is processed to its end
\* and has its progress update persisted.
C5_StopsAtBatchBoundary ==
    [][Stopped => worker.pc \in {"start", "sleep"}]_vars

\* C5 (amended): the worker stops only where it is suspended: before its
\* first step, at the page listing, the detail fetch or a record
\* transformation of a batch, or at the inter-batch pause; never inside
\* synchronous code. A batch interrupted in its listing, its detail fetch or
\* between two records is abandoned without its progress update.
C5_StopsAtAwait ==
    /\ [][Stopped => worker.pc \in AwaitPcs]_vars
    /\ [][(Stopped /\ worker.pc \in {"list", "details", "process"})
            => /\ Len(calls) = worker.batch_num + 1
               /\ UNCHANGED async_tasks]_vars

\* the worker was stopped between two records of a batch
C5_Witness ==
    /\ worker.outcome = "cancelled"
    /\ loader.i > 0
    /\ loader.i < loader.fetched
    /\ HasRow
    /\ Row.processed_items = 0

\* C6: started_at is set at the pending->running transition and only
\* there, completed_at when the task enters a terminal state, and once set
\* neither is assigned again.
C6_TimestampsSetOnce ==
    [][(HasRow /\ HasRow') =>
        /\ Row.started_at # None => Row'.started_at = Row.started_at
        /\ Row.completed_at # None => Row'.completed_at = Row.completed_at
        /\ Row'.started_at # Row.started_at
                => (Row.status = "pending" /\ Row'.status = "running")
        /\ Row'.completed_at # Row.completed_at
                => (Row.status \notin Terminal /\ Row'.status \in Terminal)]_vars

\* C7: the persisted progress is between 0 and 100, and it never decreases
\* until the task is terminal.
C7_ProgressRange == HasRow => Row.progress \in 0..100

C7_Progress ==
    /\ []C7_ProgressRange
    /\ [][(HasRow /\ HasRow' /\ Row.status \notin Terminal)
            => Row'.progress >= Row.progress]_vars

\* half way: one batch of two done
C7_Witness ==
    /\ HasRow
    /\ Row.status = "running"
    /\ Row.progress = 50

\* ceil(a / b) for b > 0
Ceil(a, b) == (a \div b) + (IF a % b = 0 THEN 0 ELSE 1)

RECURSIVE SumRequested(_)
SumRequested(cs) ==
    IF cs = << >> THEN 0 ELSE Head(cs)[1] + SumRequested(Tail(cs))

\* C8: for batch_size >= 1 the orchestrator calls the batch loader
\* ceil(limit / batch_size) times, call k (from 0) with limit
\* min(batch_size, limit - k*batch_size) at offset + k*batch_size, and the
\* requested sizes sum to limit.
C8_Batches ==
    params.batch_size >= 1 =>
        /\ \A k \in 1..Len(calls) :
              calls[k] = <<Min(params.batch_size,
                               params.limit - (k - 1) * params.batch_size),
                           params.offset + (k - 1) * params.batch_size>>
        /\ Len(calls) <= Ceil(params.limit, params.batch_size)
        /\ worker.outcome = "returned" =>
              /\ Len(calls) = Ceil(params.limit, params.batch_size)
              /\ SumRequested(calls) = params.limit

\* limit 3 in batches of 2: two calls, the second one for a single item
C8_Witness ==
    /\ worker.outcome = "returned"
    /\ params.limit = 3
    /\ params.batch_size = 2
    /\ params.offset = 1
    /\ calls = <<<<2, 1>>, <<1, 3>>>>

\* C9: every result of the batch loader has
\* loaded + updated + skipped + errors = total_requested.
C9_Accounting ==
    result.loaded + result.updated + result.skipped + result.errors
        = result.total_requested

\* C10: a detail fetch that fails does not abort its page: the documents
\* that were fetched are all processed, and every failed fetch adds one to
\* the errors of the batch's result.
C10_FetchFailureCounted ==
    (worker.pc = "upd" /\ loader.fetch_failed > 0) =>
        /\ loader.i = loader.fetched
        /\ result.errors = loader.fetch_failed + loader.transform_failed
                            + loader.save_failed

\* ----------------------------------------------------------------------
\* Properties of the catalog
\* ----------------------------------------------------------------------
Store == <<pokemons, abilities, types>>

\* the columns of a stored row, without its associations
Columns(row) ==
    [name |-> row.name, hp |-> row.hp, attack |-> row.attack,
     defense |-> row.defense, special_attack |-> row.special_attack,
     special_defense |-> row.special_defense, speed |-> row.speed,
     total_stats |-> row.total_stats]

\* some stored row has exactly this name
Stored(name) == \E i \in DOMAIN pokemons : pokemons[i].name = name

\* w calls _save_pokemon in this step / w's _save_pokemon commits or rolls back
SaveCalled(w) ==
    /\ writers[w].pc = "idle"
    /\ writers'[w].ops = writers[w].ops + 1
    /\ writers'[w].op = "save"
SaveFinished(w) ==
    /\ writers[w].pc = "write"
    /\ writers[w].op = "save"
    /\ writers'[w].pc = "idle"

\* C11: _save_pokemon decides by the exact name.  The call returns skipped,
\* and mutates nothing, exactly when a row has the very name of the record
\* and force_update is false; otherwise it goes on to write: with a row
\* found it returns updated, the row count is the same and the columns of
\* that row are the record's; with no row found it returns loaded and the
\* table has one more row, the record's.  It returns error only when a
\* statement of its transaction raises, as the flush does when another
\* writer has taken the name since the lookup.
C11_UpsertDecision ==
    [][\A w \in Writers :
        /\ SaveCalled(w) =>
             LET name == writers'[w].columns.name
             IN /\ (writers'[w].existing # None) <=> Stored(name)
                /\ writers'[w].existing # None => pokemons[writers'[w].existing].name = name
                /\ (writers'[w].outcome = "skipped")
                       <=> (Stored(name) /\ ~writers'[w].force_update)
                /\ writers'[w].outcome = "skipped" => UNCHANGED Store
                /\ writers'[w].outcome # "skipped" =>
                       writers'[w].pc = "write" /\ UNCHANGED Store
        /\ SaveFinished(w) =>
             LET me == writers[w]
             IN /\ writers'[w].outcome \in {"updated", "loaded", "error"}
                /\ (writers'[w].outcome = "error") <=> (writers'[w].raised # "none")
                /\ (\E i \in DOMAIN pokemons :
                        i # me.existing /\ pokemons[i].name = me.columns.name)
                       => writers'[w].raised = "flush"
                /\ writers'[w].outcome = "error" => UNCHANGED Store
                /\ writers'[w].outcome = "updated" =>
                       /\ me.existing # None /\ me.force_update
                       /\ Len(pokemons') = Len(pokemons)
                       /\ Columns(pokemons'[me.existing]) = me.columns
                       /\ \A i \in DOMAIN pokemons :
                              i # me.existing => pokemons'[i] = pokemons[i]
                /\ writers'[w].outcome = "loaded" =>
                       /\ me.existing = None
                       /\ Len(pokemons') = Len(pokemons) + 1
                       /\ Columns(pokemons'[Len(pokemons')]) = me.columns
                       /\ SubSeq(pokemons', 1, Len(pokemons)) = pokemons
      ]_vars

\* a forced upsert has overwritten the row that the writer's previous
\* upsert had inserted, with other values in its columns
C11_Witness ==
    \E w \in Writers :
        /\ writers[w].op = "save"
        /\ writers[w].outcome = "updated"
        /\ writers[w].last = "loaded"
        /\ Len(pokemons) = 1
        /\ Columns(pokemons[1]) = writers[w].columns
        /\ pokemons[1].hp = 2

\* C12: one caller alone, two calls of _save_pokemon without force_update
\* for one name that no row has: the first returns loaded (the database
\* raising nothing), the second returns skipped and leaves the rows of pokemons, of abilities, of types
\* and of the association tables as they were.
Alone(w) == \A v \in Writers \ {w} : writers[v].ops = 0
C12_LoadedThenSkipped ==
    [][\A w \in Writers :
        /\ (Alone(w) /\ SaveFinished(w) /\ writers[w].existing = None
                     /\ writers'[w].raised = "none") =>
              /\ writers'[w].outcome = "loaded"
              /\ Stored(writers[w].columns.name)'
        /\ (/\ Alone(w)
            /\ SaveCalled(w)
            /\ writers[w].op = "save"
            /\ writers[w].outcome = "loaded"
            /\ writers'[w].columns.name = writers[w].columns.name
            /\ ~writers'[w].force_update) =>
              /\ writers'[w].outcome = "skipped"
              /\ writers'[w].pc = "idle"
              /\ UNCHANGED Store
      ]_vars

\* the second call has returned skipped after the first returned loaded
C12_Witness ==
    \E w \in Writers :
        /\ Alone(w)
        /\ writers[w].op = "save"
        /\ writers[w].ops = 2
        /\ writers[w].last = "loaded"
        /\ writers[w].outcome = "skipped"
        /\ Len(pokemons) = 1
        /\ pokemons[1].name = writers[w].columns.name

\* w's crud.create_pokemon commits or raises
CreateFinished(w) ==
    /\ writers[w].pc = "write"
    /\ writers[w].op = "create"
    /\ writers'[w].pc = "idle"

\* C13: no two rows of pokemons have the same name.  A forced upsert that
\* found the name adds no row; an insert (of an import, or of a creation
\* request) whose name another writer has stored since the lookup stores
\* nothing and is reported as an error: outcome error of _save_pokemon,
\* status 500 of POST /pokemon.
C13_UniqueNames ==
    /\ [](\A i, j \in DOMAIN pokemons : pokemons[i].name = pokemons[j].name => i = j)
    /\ [][\A w \in Writers :
            /\ (SaveFinished(w) /\ writers[w].existing # None) =>
                   Len(pokemons') = Len(pokemons)
            /\ (SaveFinished(w) /\ writers[w].existing = None
                    /\ Stored(writers[w].columns.name)) =>
                   /\ writers'[w].outcome = "error"
                   /\ UNCHANGED Store
            /\ (CreateFinished(w) /\ Stored(writers[w].columns.name)) =>
                   /\ writers'[w].outcome = "500"
                   /\ UNCHANGED Store
       ]_vars

\* two imports raced to insert one name: one row is stored, the first to
\* commit returned loaded and the other one error
C13_Witness ==
    \E w, v \in Writers :
        /\ writers[w].op = "save" /\ writers[w].outcome = "loaded"
        /\ writers[v].op = "save" /\ writers[v].outcome = "error"
        /\ writers[v].existing = None
        /\ writers[v].columns.name = writers[w].columns.name
        /\ Len(pokemons) = 1

\* C14: no two rows of pokemons have names that are equal when letter case
\* is ignored.
C14_UniqueIgnoringCase ==
    \A i, j \in DOMAIN pokemons :
        lower(pokemons[i].name) = lower(pokemons[j].name) => i = j

\* C15: in every row of pokemons total_stats is the sum of hp, attack,
\* defense, special_attack, special_defense and speed.
C15_TotalIsSum ==
    \A i \in DOMAIN pokemons :
        pokemons[i].total_stats =
            pokemons[i].hp + pokemons[i].attack + pokemons[i].defense
            + pokemons[i].special_attack + pokemons[i].special_defense
            + pokemons[i].speed

\* ----------------------------------------------------------------------
\* Properties of the requests
\* ----------------------------------------------------------------------
\* C16: a start request with an invalid parameter creates no row and
\* launches no worker: whenever the row exists or the worker has been
\* spawned, the limit is in the range the handler allows, the offset is not
\* negative and batch_size is at least 1.
C16_InvalidRejected ==
    (HasRow \/ worker.pc # "none") =>
        /\ params.limit >= 1 /\ params.limit <= HandlerLimitMax
        /\ params.offset >= 0
        /\ params.batch_size >= 1

ClientErrors == 400..499

\* C17: for a task id without a row, the status request and the cancel
\* request answer with a client error, and the cancel request changes
\* neither the rows nor the registry.
C17_UnknownIdClientError ==
    /\ [](\A task_id \in {TaskId, "unknown"} :
            task_id \notin DOMAIN async_tasks => get_task_status(task_id) \in ClientErrors)
    /\ [][(canceller.pc = "persist" /\ canceller'.pc = "idle" /\ ~HasRow) =>
             /\ canceller'.status_code \in ClientErrors
             /\ UNCHANGED <<async_tasks, active_tasks>>
       ]_vars

\* ----------------------------------------------------------------------
\* Properties of the completed task
\* ----------------------------------------------------------------------
RECURSIVE SumField(_, _)
\* the sum of one count over the batch results
SumField(results, f) ==
    IF results = << >> THEN 0 ELSE results[1][f] + SumField(Tail(results), f)

AggregateCounts == {"total_requested", "loaded", "updated", "skipped", "errors"}

\* C18: the result of a completed task has the five counts requested,
\* loaded, updated, skipped and errors, each the sum of that count over the
\* results of the task's batches.
C18_AggregateResult ==
    (HasRow /\ Row.status = "completed") =>
        LET res == Row.result[1]
        IN /\ AggregateCounts \subseteq DOMAIN res
           /\ \A f \in AggregateCounts : res[f] = SumField(worker.ledger.results, f)

\* ----------------------------------------------------------------------
\* Properties of the progress updates
\* ----------------------------------------------------------------------
\* the worker commits the progress of the batch it has just run
ProgressPersisted == worker.pc = "upd" /\ worker'.pc = "sleep"

\* the nearest integer to a / b, for a >= 0 and b > 0
Round(a, b) == (2 * a + b) \div (2 * b)

BecomesCompleted ==
    /\ HasRow'
    /\ Row'.status = "completed"
    /\ ~HasRow \/ Row.status # "completed"

\* C20: for batch_size >= 1, the row turns completed only when all
\* ceil(limit / batch_size) batches have been run and the progress update
\* of the last one is in the row, and it then has progress 100 and
\* completed_at; a batch starts only when the worker has no batch under
\* way and the progress update of the batch before it is in the row.
C20_CompletedAfterAllBatches ==
    [][params.batch_size >= 1 =>
         /\ BecomesCompleted =>
              /\ Len(calls) = Ceil(params.limit, params.batch_size)
              /\ worker.pc = "complete"
              /\ Row.processed_items = params.limit
              /\ Row'.progress = 100
              /\ Row'.completed_at # None
         /\ calls' # calls =>
              /\ Len(calls') = Len(calls) + 1
              /\ worker.pc \in {"upd0", "sleep"}
              /\ worker'.pc = "list"
              /\ Len(calls) < Ceil(params.limit, params.batch_size)
              /\ Len(calls) >= 1 =>
                    /\ Row.progress =
                         (100 * Len(calls)) \div Ceil(params.limit, params.batch_size)
                    /\ Row.processed_items = Len(calls) * params.batch_size
      ]_vars

\* three batches of one item have run and the task is completed
C20_Witness ==
    /\ HasRow
    /\ Row.status = "completed"
    /\ params.limit = 3
    /\ params.batch_size = 1
    /\ Len(calls) = 3
    /\ Row.progress = 100
    /\ Row.completed_at # None

\* ----------------------------------------------------------------------
\* Properties of the failures inside a batch
\* ----------------------------------------------------------------------
\* load_pokemons returns to the worker in this step
LoaderReturns == worker.pc \in {"list", "details", "process"} /\ worker'.pc = "upd"

\* the limit of the load_pokemons call under way
CallLimit == calls[Len(calls)][1]

\* C21: when the source cannot be reached for the listing of a page, or
\* answers it with another status than 200, load_pokemons returns
\* total_requested = limit, errors = limit and loaded = updated = skipped = 0.
C21_ListingFailureAllErrors ==
    [][(LoaderReturns /\ loader'.listing \in {"unreachable", "non200"}) =>
          result' = [total_requested |-> CallLimit, loaded |-> 0, updated |-> 0,
                     skipped |-> 0, errors |-> CallLimit]
      ]_vars

LoaderPcs == {"list", "details", "process"}

\* the row turns failed in this step
BecomesFailed ==
    /\ HasRow'
    /\ Row'.status = "failed"
    /\ ~HasRow \/ Row.status # "failed"

\* C22: whatever fails inside load_pokemons - the listing, a detail fetch,
\* a transformation, the persistence of a record - the call returns a
\* result to the worker, unless the worker is cancelled there; the worker
\* then goes on to the next batch, or to completion after the last one;
\* the row turns failed only by the worker's own handler, for an exception
\* raised outside load_pokemons.
C22_FailuresAbsorbed ==
    [][/\ (worker.pc \in LoaderPcs /\ worker'.pc \notin LoaderPcs) =>
            \/ worker'.pc = "upd" /\ result' \in
                  [total_requested : Int, loaded : Int, updated : Int,
                   skipped : Int, errors : Int]
            \/ worker.must_cancel /\ worker'.outcome = "cancelled"
       /\ (worker.pc = "upd" /\ worker'.pc # "upd") => worker'.pc = "sleep"
       /\ (worker.pc = "sleep" /\ worker'.pc # "sleep") =>
            \/ worker.must_cancel /\ worker'.outcome = "cancelled"
            \/ /\ worker.batch_num + 1 < worker.total_batches
               /\ worker'.pc = "list"
               /\ worker'.batch_num = worker.batch_num + 1
               /\ Len(calls') = Len(calls) + 1
            \/ /\ worker.batch_num + 1 >= worker.total_batches
               /\ worker'.pc = "complete"
       /\ BecomesFailed => (worker.pc = "fail" /\ loader = IdleLoader)
      ]_vars

\* a batch whose listing failed and a batch with a failed detail fetch, a
\* failed transformation or a failed save were each followed by the next
\* batch, and the task has completed
C22_Witness ==
    /\ HasRow
    /\ Row.status = "completed"
    /\ Len(calls) = 3
    /\ loader.listing \in {"unreachable", "non200"}
    /\ worker.total_errors >= 1

\* C23: when a statement of the transaction of _save_pokemon raises, at
\* the flush, inside _add_relationships or at the commit, the rows of
\* pokemons, of abilities, of types and of the association tables are what
\* they were before the call, the call returns error, and the session is
\* ready for the next record.
C23_RollbackOnError ==
    [][\A w \in Writers :
         (SaveFinished(w) /\ writers'[w].raised # "none") =>
            /\ writers'[w].outcome = "error"
            /\ UNCHANGED Store
            /\ writers'[w].pc = "idle"
      ]_vars

\* the commit of one record raised and was rolled back, and the same
\* session has then stored the next record
C23_Witness ==
    \E w \in Writers :
        /\ writers[w].op = "save"
        /\ writers[w].ops = 2
        /\ writers[w].last = "error"
        /\ writers[w].outcome = "loaded"
        /\ Len(pokemons) = 1

\* no entry twice
NoDuplicate(s) == \A i, j \in DOMAIN s : s[i] = s[j] => i = j

\* C24: when _save_pokemon returns loaded or updated, the abilities linked
\* to the row are exactly the abilities named in the record and the types
\* linked to it exactly the types named in it; each of these names has a
\* row in abilities or types, and each is linked once, however often the
\* record names it; nothing linked before a forced update remains unless
\* the record names it.
C24_LinksAreTheRecords ==
    [][\A w \in Writers :
         (SaveFinished(w) /\ writers'[w].outcome \in {"loaded", "updated"}) =>
            LET me == writers[w]
                id == IF me.existing # None THEN me.existing ELSE Len(pokemons')
                row == pokemons'[id]
            IN /\ Range(row.abilities) = Range(me.abilities)
               /\ Range(row.types) = Range(me.types)
               /\ NoDuplicate(row.abilities)
               /\ NoDuplicate(row.types)
               /\ Range(me.abilities) \subseteq abilities'
               /\ Range(me.types) \subseteq types'
      ]_vars

\* a forced update with a record that names one ability and one type has
\* replaced the links of a version that named static twice, rod, and no
\* type: rod has its row but is linked no more
C24_Witness ==
    \E w \in Writers :
        /\ writers[w].op = "save"
        /\ writers[w].outcome = "updated"
        /\ writers[w].last = "loaded"
        /\ Len(pokemons) = 1
        /\ pokemons[1].abilities = <<"static">>
        /\ pokemons[1].types = <<"electric">>
        /\ "rod" \in abilities

\* the chain the document carries: evolution_data.get('chain', {})
ChainOf(evolution_data) ==
    IF DOMAIN evolution_data = {} THEN EmptyDict
    ELSE GetOr(evolution_data, "chain", EmptyDict)

RECURSIVE NodeAt(_, _)
\* the node reached from `chain` by taking the path[1]-th chain of
\* evolves_to, then the path[2]-th of that one, and so on; {} when there is
\* none
NodeAt(chain, path) ==
    IF path = << >> \/ DOMAIN chain = {} THEN chain
    ELSE LET evolves_to == GetOr(chain, "evolves_to", << >>)
         IN IF Head(path) \in DOMAIN evolves_to
            THEN NodeAt(evolves_to[Head(path)], Tail(path))
            ELSE EmptyDict

\* the paths of the nodes of a chain
PathsOf(chain) ==
    { path \in UNION { [1..k -> 1..MaxNodes] : k \in 0..(MaxNodes - 1) } :
        DOMAIN NodeAt(chain, path) # {} }

\* depth-first pre-order on paths: a node before the nodes below it, and
\* the nodes below an earlier chain of evolves_to before those below a
\* later one
Precedes(p, q) ==
    /\ p # q
    /\ \/ /\ Len(p) < Len(q)
          /\ \A i \in 1..Len(p) : p[i] = q[i]
       \/ \E i \in 1..Min(Len(p), Len(q)) :
             /\ p[i] < q[i]
             /\ \A j \in 1..(i - 1) : p[j] = q[j]

\* the names of the entries, in order
EntryNames(evolutions) == [i \in 1..Len(evolutions) |-> evolutions[i].name]

\* C25: extract_evolutions returns one entry per node of the chain, in
\* depth-first pre-order (a node before its children, children in the order
\* listed), each entry with the name and url of the node's species and the
\* min_level and trigger of the node's first evolution_detail, None for
\* both when the node has no evolution_detail; a missing or empty chain
\* gives the empty list; a->b->c and a->{b, c} both give [a, b, c].
C25_PreOrderFirstDetail ==
    extraction.pc = "returned" =>
        LET chain == ChainOf(extraction.evolution_data)
            nodes == PathsOf(chain)
            evolutions == extraction.evolutions
            position(path) == 1 + Cardinality({q \in nodes : Precedes(q, path)})
        IN /\ Len(evolutions) = Cardinality(nodes)
           /\ \A path \in nodes :
                LET node == NodeAt(chain, path)
                    species == GetOr(node, "species", EmptyDict)
                    details == GetOr(node, "evolution_details", << >>)
                    entry == evolutions[position(path)]
                IN /\ entry.name = GetOr(species, "name", "")
                   /\ entry.url = GetOr(species, "url", "")
                   /\ IF Len(details) = 0
                      THEN entry.min_level = None /\ entry.trigger = NoTrigger
                      ELSE /\ entry.min_level = GetOr(details[1], "min_level", None)
                           /\ entry.trigger =
                                  GetOr(GetOr(details[1], "trigger", EmptyDict),
                                        "name", NoTrigger)
           /\ DOMAIN chain = {} => evolutions = << >>
           /\ (\E det \in [1..3 -> DetailLists] :
                 chain = ChainNode(1, 3, [j \in 2..3 |-> j - 1], det))
                 => EntryNames(evolutions) = <<"a", "b", "c">>
           /\ (\E det \in [1..3 -> DetailLists] :
                 chain = ChainNode(1, 3, [j \in 2..3 |-> 1], det))
                 => EntryNames(evolutions) = <<"a", "b", "c">>

\* a chain a->{b->d, c} has been flattened to [a, b, d, c], and the entry
\* of b, whose first evolution_detail has no min_level and whose second has
\* one, carries no min_level
C25_Witness ==
    /\ extraction.pc = "returned"
    /\ EntryNames(extraction.evolutions) = <<"a", "b", "d", "c">>
    /\ extraction.evolutions[2].min_level = None
    /\ extraction.evolutions[2].trigger = "trade"
    /\ extraction.evolutions[3].min_level = 16

\* the fetches of the page that hold a permit
InFlight == {u \in DOMAIN gathering.tasks : gathering.tasks[u] = "acquired"}

\* C26: while fetch_pokemon_details gathers the details of a page, at most
\* SEMAPHORE_LIMIT (10) fetches are inside the semaphore, whatever the
\* number of urls and the order in which the fetches finish.
C26_AtMostTenInFlight ==
    /\ Cardinality(InFlight) <= SEMAPHORE_LIMIT
    /\ gathering.pc = "gather" =>
          gathering.semaphore + Cardinality(InFlight) = SEMAPHORE_LIMIT

\* ten fetches of a page of more than ten urls are in flight, one has
\* finished and another is waiting for a permit
C26_Witness ==
    /\ gathering.pc = "gather"
    /\ Cardinality(InFlight) = SEMAPHORE_LIMIT
    /\ \E u, v \in DOMAIN gathering.tasks :
          /\ gathering.tasks[u] = "done"
          /\ gathering.tasks[v] = "waiting"

\* the row is in one of the states completed, failed, cancelled
RowTerminal == HasRow /\ Row.status \in Terminal

C28_CancelIsNotFailure ==
    HasRow =>
        /\ worker.outcome = "cancelled" =>
              (Row.status # "failed" /\ Row.error = NoError)
        /\ (Row.status = "failed" \/ Row.error # NoError) =>
              params.batch_size = 0

\* a running task was cancelled after its first batch: the worker was
\* stopped by the signal and the row is cancelled, without error
C28_Witness ==
    /\ HasRow
    /\ worker.outcome = "cancelled"
    /\ worker.must_cancel
    /\ Len(calls) >= 1
    /\ Row.status = "cancelled"
    /\ Row.started_at # None
    /\ Row.error = NoError

\* C29: a cancel request for an existing task returns normally in every
\* interleaving with the worker finishing on its own: neither
\* active_tasks[task_id].cancel() nor del active_tasks[task_id] raises
\* because the done-callback has removed the entry after the membership
\* test.
C29_CancelNeverRaises == HasRow => canceller.failed = 0

\* C30: for every request under /pokemon or /admin the middleware calls
\* call_next at most once, also when the handler raises, so the handler's
\* side effects (the import task load_pokemons_batch creates) happen at
\* most once per request.
C30_DispatchedOnce ==
    should_validate(middleware.path) =>
        (middleware.dispatched <= 1 /\ middleware.launched <= 1)

====
